---- MODULE Spec2Model ----
(***************************************************************************)
(* Model of anonimizador/main.py: mask_entities_and_contacts(text).        *)
(*                                                                         *)
(* One call of the function is a run of the state machine.  The results    *)
(* of the library calls the function makes on its input (nlp(text),        *)
(* re.finditer, doc.char_span) are inputs chosen in Init; every statement  *)
(* of the function body is an action.                                      *)
(***************************************************************************)
EXTENDS Integers, Sequences, FiniteSets

(* ---------------------------- bounds ---------------------------------- *)
MaxLen == 3          \* longest input text, in characters
MaxSpans == 2        \* most extractor entities and regex matches together

VARIABLES
    text,            \* the argument, a sequence of characters
    token_bounds,    \* character offsets at which doc has a token boundary
    extracted,       \* doc.ents as nlp(text) returned it
    matches,         \* matches[r]: what re.finditer yields for patterns[r]
    doc_ents,        \* doc.ents (reassigned at line 86)
    spans,           \* line 26
    entities_found,  \* line 29
    new_ents,        \* line 63
    merged_spans,    \* line 92
    masked_text,     \* line 106
    last_idx,        \* line 107
    i,               \* index of the running for loop over a list
    pos,             \* <<r, m>>: pattern and match of the loops of lines 66-68
    pc               \* the statement to execute next

vars == <<text, token_bounds, extracted, matches, doc_ents, spans,
          entities_found, new_ents, merged_spans, masked_text, last_idx,
          i, pos, pc>>

(* ---------------------------- constants of the code ------------------- *)
\* line 33: the labels of the extractor that are masked
MaskedLabels == {"PER", "ORG", "LOC", "GPE"}

\* a variant of lines 42-60 with the first two patterns exchanged
patternsExchanged == <<"CNPJ", "CPF", "TELEFONE", "EMAIL">>

\* lines 42-60: the labels of the patterns, in declaration order
patterns == <<"CPF", "CNPJ", "TELEFONE", "EMAIL">>

\* line 110: the mask, eight asterisks
MaskToken == <<"*", "*", "*", "*", "*", "*", "*", "*">>

\* labels the extractor may give an entity: the masked ones and another
ExtractorLabels == {"PER", "LOC", "MISC"}

(* ---------------------------- helpers --------------------------------- *)
Max(a, b) == IF a >= b THEN a ELSE b

Min(a, b) == IF a <= b THEN a ELSE b

\* text[s:e], a Python slice with 0 <= s
Slice(t, s, e) == SubSeq(t, s + 1, Min(e, Len(t)))

\* the text of n characters is the first n of these: its characters are
\* pairwise different and none is an asterisk, so that a character of the
\* masked text tells the position it was copied from
Chars == <<"a", "b", "c", "d", "e", "f", "g">>

CharAt(n) == Chars[((n - 1) % Len(Chars)) + 1]

Intervals(n) == {iv \in (0..n) \X (0..n) : iv[1] < iv[2]}

\* line 32: doc.ents of a fresh doc, k entities on the intervals S: in
\* document order, no two sharing a character
EntSeqs(S, k) ==
    {q \in [1..k -> S] : \A x \in 1..(k - 1) : q[x][2] <= q[x + 1][1]}

\* line 68: k matches <<r, interval>> of the patterns on a text of n
\* characters, pattern after pattern; re.finditer yields the matches of one
\* pattern from left to right, none empty, no two sharing a character
MatchSeqs(n, k) ==
    {q \in [1..k -> (1..Len(patterns)) \X Intervals(n)] :
        \A x \in 1..(k - 1) :
            \/ q[x][1] < q[x + 1][1]
            \/ q[x][1] = q[x + 1][1] /\ q[x][2][2] <= q[x + 1][2][1]}

\* the matches of pattern r among q, as <<start, end>> pairs
MatchesOf(q, r) ==
    LET before == Cardinality({x \in 1..Len(q) : q[x][1] < r})
        count == Cardinality({x \in 1..Len(q) : q[x][1] = r})
    IN  [y \in 1..count |-> q[before + y][2]]

Aligned(s, e) == s \in token_bounds /\ e \in token_bounds

None == [start |-> -1, end |-> -1, label |-> "None"]

\* lines 70-72: doc.char_span(match.start(), match.end(), label=...)
CharSpan(s, e, label) ==
    IF Aligned(s, e) THEN [start |-> s, end |-> e, label |-> label] ELSE None

\* lines 38, 76: {'text': span.text, 'label': span.label_}
EntityRecord(sp) == [text |-> Slice(text, sp.start, sp.end), label |-> sp.label]

\* a variant of line 33 that looks at no label
AnyLabel(label) == TRUE

\* line 33
IsMaskedLabel(label) == label \in MaskedLabels

(* ---------------------------- the loops of lines 66-68 ---------------- *)
BeforeFirst == <<0, 0>>

Exhausted == <<Len(patterns) + 1, 0>>

SetMin(S) == CHOOSE x \in S : \A y \in S : x <= y

\* the <<pattern, match>> the nested for loops visit after p
NextPos(p) ==
    IF p[1] >= 1 /\ p[1] <= Len(patterns) /\ p[2] < Len(matches[p[1]])
    THEN <<p[1], p[2] + 1>>
    ELSE LET later == {r \in (p[1] + 1)..Len(patterns) : matches[r] # <<>>}
         IN  IF later = {} THEN Exhausted ELSE <<SetMin(later), 1>>

(* ---------------------------- filter_spans ---------------------------- *)
SpanLength(sp) == sp.end - sp.start

Overlap(a, b) == a.start < b.end /\ b.start < a.end

\* x placed behind every span of the length-sorted t that is at least as long
InsertByLength(x, t) ==
    LET p == Cardinality({y \in 1..Len(t) : SpanLength(t[y]) >= SpanLength(x)})
    IN  SubSeq(t, 1, p) \o <<x>> \o SubSeq(t, p + 1, Len(t))

RECURSIVE SortedByLength(_)
SortedByLength(s) ==
    IF s = <<>> THEN <<>>
    ELSE InsertByLength(s[Len(s)], SortedByLength(SubSeq(s, 1, Len(s) - 1)))

RECURSIVE Accept(_, _)
Accept(cands, accepted) ==
    IF cands = <<>> THEN accepted
    ELSE Accept(Tail(cands),
                IF \E y \in 1..Len(accepted) : Overlap(Head(cands), accepted[y])
                THEN accepted
                ELSE Append(accepted, Head(cands)))

\* spacy.util.filter_spans: the longest span first, the first seen of equal
\* length first, a span kept when it overlaps none kept before it
filter_spans(cands) == Accept(SortedByLength(cands), <<>>)

(* ---------------------------- sorting and merging --------------------- *)
\* x placed behind every pair of the start-sorted t that starts no later
InsertByStart(x, t) ==
    LET p == Cardinality({y \in 1..Len(t) : t[y][1] <= x[1]})
    IN  SubSeq(t, 1, p) \o <<x>> \o SubSeq(t, p + 1, Len(t))

\* line 89: sorted(spans, key=lambda x: x[0]), a stable sort
RECURSIVE SortedByStart(_)
SortedByStart(s) ==
    IF s = <<>> THEN <<>>
    ELSE InsertByStart(s[Len(s)], SortedByStart(SubSeq(s, 1, Len(s) - 1)))

\* a variant of line 98 with < for <=
TouchesStrict(span, last_span) == span[1] < last_span[2]

\* line 98
Touches(span, last_span) == span[1] <= last_span[2]

\* a variant of line 100 without max
CombinedNoMax(last_span, span) == <<last_span[1], span[2]>>

\* line 100
Combined(last_span, span) == <<last_span[1], Max(last_span[2], span[2])>>

\* lines 94-103: the body of the merge loop
MergeInto(merged, span) ==
    IF merged = <<>> THEN <<span>>
    ELSE LET last_span == merged[Len(merged)]
         IN  IF Touches(span, last_span)
             THEN [merged EXCEPT ![Len(merged)] = Combined(last_span, span)]
             ELSE Append(merged, span)

\* a variant of line 111 that keeps the start
NextIdxStart(start, end) == start

\* line 111
NextIdx(start, end) == end

(* ---------------------------- initial states -------------------------- *)
Init ==
    \E n \in 0..MaxLen :
    \E nm \in 0..MaxSpans :
    \E q \in MatchSeqs(n, nm) :
    \E tb \in SUBSET (0..n) :
    \E ne \in 0..(MaxSpans - nm) :
    \E ivs \in EntSeqs({iv \in Intervals(n) : iv[1] \in tb /\ iv[2] \in tb}, ne) :
    \E labs \in [1..ne -> ExtractorLabels] :
        /\ 0 \in tb /\ n \in tb
        /\ text = [x \in 1..n |-> CharAt(x)]
        /\ token_bounds = tb
        /\ extracted = [x \in 1..ne |->
                          [start |-> ivs[x][1], end |-> ivs[x][2], label |-> labs[x]]]
        /\ matches = [r \in 1..Len(patterns) |-> MatchesOf(q, r)]
        /\ doc_ents = extracted
        /\ spans = <<>>
        /\ entities_found = <<>>
        /\ new_ents = <<>>
        /\ merged_spans = <<>>
        /\ masked_text = <<>>
        /\ last_idx = 0
        /\ i = 1
        /\ pos = BeforeFirst
        /\ pc = "ents"

(* ---------------------------- the statements -------------------------- *)
\* a variant of lines 32-39 that reports the entity before looking at its label
EntStepReportAll ==
    /\ pc = "ents" /\ i <= Len(doc_ents)
    /\ LET ent == doc_ents[i]
       IN  /\ entities_found' = Append(entities_found, EntityRecord(ent))
           /\ IF IsMaskedLabel(ent.label)
              THEN spans' = Append(spans, <<ent.start, ent.end>>)
              ELSE UNCHANGED spans
    /\ i' = i + 1
    /\ UNCHANGED <<text, token_bounds, extracted, matches, doc_ents, new_ents,
                   merged_spans, masked_text, last_idx, pos, pc>>

\* lines 32-39: one pass of the loop over doc.ents
EntStep ==
    /\ pc = "ents" /\ i <= Len(doc_ents)
    /\ LET ent == doc_ents[i]
       IN  IF IsMaskedLabel(ent.label)
           THEN /\ spans' = Append(spans, <<ent.start, ent.end>>)
                /\ entities_found' = Append(entities_found, EntityRecord(ent))
           ELSE UNCHANGED <<spans, entities_found>>
    /\ i' = i + 1
    /\ UNCHANGED <<text, token_bounds, extracted, matches, doc_ents, new_ents,
                   merged_spans, masked_text, last_idx, pos, pc>>

\* line 63: new_ents = list(doc.ents)
CopyEnts ==
    /\ pc = "ents" /\ i > Len(doc_ents)
    /\ new_ents' = doc_ents
    /\ pos' = NextPos(BeforeFirst)
    /\ pc' = "patterns"
    /\ UNCHANGED <<text, token_bounds, extracted, matches, doc_ents, spans,
                   entities_found, merged_spans, masked_text, last_idx, i>>

\* a variant of lines 66-80 without lines 78-80
PatternStepNoSpan ==
    /\ pc = "patterns" /\ pos # Exhausted
    /\ LET match == matches[pos[1]][pos[2]]
           span == CharSpan(match[1], match[2], patterns[pos[1]])
       IN  IF span # None
           THEN /\ new_ents' = Append(new_ents, span)
                /\ entities_found' = Append(entities_found, EntityRecord(span))
           ELSE UNCHANGED <<new_ents, entities_found>>
    /\ pos' = NextPos(pos)
    /\ UNCHANGED <<text, token_bounds, extracted, matches, doc_ents, spans,
                   merged_spans, masked_text, last_idx, i, pc>>

\* a variant of lines 66-80 with lines 78-80 outside the if, on the match
PatternStepKeepNone ==
    /\ pc = "patterns" /\ pos # Exhausted
    /\ LET match == matches[pos[1]][pos[2]]
           span == CharSpan(match[1], match[2], patterns[pos[1]])
       IN  /\ IF span # None
              THEN /\ new_ents' = Append(new_ents, span)
                   /\ entities_found' = Append(entities_found, EntityRecord(span))
              ELSE UNCHANGED <<new_ents, entities_found>>
           /\ spans' = Append(spans, <<match[1], match[2]>>)
    /\ pos' = NextPos(pos)
    /\ UNCHANGED <<text, token_bounds, extracted, matches, doc_ents,
                   merged_spans, masked_text, last_idx, i, pc>>

\* lines 66-80: one pass of the loops over the patterns and their matches
PatternStep ==
    /\ pc = "patterns" /\ pos # Exhausted
    /\ LET match == matches[pos[1]][pos[2]]
           span == CharSpan(match[1], match[2], patterns[pos[1]])
       IN  IF span # None
           THEN /\ new_ents' = Append(new_ents, span)
                /\ entities_found' = Append(entities_found, EntityRecord(span))
                /\ spans' = Append(spans, <<span.start, span.end>>)
           ELSE UNCHANGED <<new_ents, entities_found, spans>>
    /\ pos' = NextPos(pos)
    /\ UNCHANGED <<text, token_bounds, extracted, matches, doc_ents,
                   merged_spans, masked_text, last_idx, i, pc>>

\* a variant of lines 83-86 without the call of filter_spans
FilterSpansSkipped ==
    /\ pc = "patterns" /\ pos = Exhausted
    /\ doc_ents' = new_ents
    /\ pc' = "sort"
    /\ UNCHANGED <<text, token_bounds, extracted, matches, spans, entities_found,
                   new_ents, merged_spans, masked_text, last_idx, i, pos>>

\* lines 83-86: doc.ents = filter_spans(new_ents)
FilterSpans ==
    /\ pc = "patterns" /\ pos = Exhausted
    /\ doc_ents' = filter_spans(new_ents)
    /\ pc' = "sort"
    /\ UNCHANGED <<text, token_bounds, extracted, matches, spans, entities_found,
                   new_ents, merged_spans, masked_text, last_idx, i, pos>>

\* lines 89-92: spans = sorted(...); merged_spans = []
SortSpans ==
    /\ pc = "sort"
    /\ spans' = SortedByStart(spans)
    /\ merged_spans' = <<>>
    /\ i' = 1
    /\ pc' = "merge"
    /\ UNCHANGED <<text, token_bounds, extracted, matches, doc_ents,
                   entities_found, new_ents, masked_text, last_idx, pos>>

\* lines 93-103: one pass of the merge loop
MergeStep ==
    /\ pc = "merge" /\ i <= Len(spans)
    /\ merged_spans' = MergeInto(merged_spans, spans[i])
    /\ i' = i + 1
    /\ UNCHANGED <<text, token_bounds, extracted, matches, doc_ents, spans,
                   entities_found, new_ents, masked_text, last_idx, pos, pc>>

\* lines 106-107: masked_text = ''; last_idx = 0
BuildInit ==
    /\ pc = "merge" /\ i > Len(spans)
    /\ masked_text' = <<>>
    /\ last_idx' = 0
    /\ i' = 1
    /\ pc' = "build"
    /\ UNCHANGED <<text, token_bounds, extracted, matches, doc_ents, spans,
                   entities_found, new_ents, merged_spans, pos>>

\* lines 108-111: one pass of the loop over merged_spans
BuildStep ==
    /\ pc = "build" /\ i <= Len(merged_spans)
    /\ LET start == merged_spans[i][1]
           end == merged_spans[i][2]
       IN  /\ masked_text' = masked_text \o Slice(text, last_idx, start) \o MaskToken
           /\ last_idx' = NextIdx(start, end)
    /\ i' = i + 1
    /\ UNCHANGED <<text, token_bounds, extracted, matches, doc_ents, spans,
                   entities_found, new_ents, merged_spans, pos, pc>>

\* lines 112-114: masked_text += text[last_idx:]; return
Return ==
    /\ pc = "build" /\ i > Len(merged_spans)
    /\ masked_text' = masked_text \o Slice(text, last_idx, Len(text))
    /\ pc' = "done"
    /\ UNCHANGED <<text, token_bounds, extracted, matches, doc_ents, spans,
                   entities_found, new_ents, merged_spans, last_idx, i, pos>>

Next ==
    \/ EntStep
    \/ CopyEnts
    \/ PatternStep
    \/ FilterSpans
    \/ SortSpans
    \/ MergeStep
    \/ BuildInit
    \/ BuildStep
    \/ Return

Spec == Init /\ [][Next]_vars

(***************************************************************************)
(* The properties.  They are stated on the inputs of the call (text,       *)
(* token_bounds, extracted, matches) and on what the call leaves in its    *)
(* variables, with definitions of their own.                               *)
(***************************************************************************)
Range(s) == {s[x] : x \in 1..Len(s)}

Linguistic == {"PER", "ORG", "LOC", "GPE"}

PatternLabels == {"CPF", "CNPJ", "TELEFONE", "EMAIL"}

RuleLabel(r) ==
    CASE r = 1 -> "CPF" [] r = 2 -> "CNPJ" [] r = 3 -> "TELEFONE" [] r = 4 -> "EMAIL"

Rank(label) ==
    CASE label = "CPF" -> 1 [] label = "CNPJ" -> 2 [] label = "TELEFONE" -> 3
      [] label = "EMAIL" -> 4 [] OTHER -> 0

\* the match m has offsets that doc.char_span turns into a span
Converts(m) == m[1] \in token_bounds /\ m[2] \in token_bounds

IsLinguistic(e) == e.label \in Linguistic

Shares(a, b) == a[1] < b[2] /\ b[1] < a[2]

Iv(sp) == <<sp.start, sp.end>>

Rec(sp) == [text |-> SubSeq(text, sp.start + 1, sp.end), label |-> sp.label]

Recs(q) == [x \in 1..Len(q) |-> Rec(q[x])]

\* the spans of the matches of pattern r that convert, left to right
RuleSpans(r) ==
    LET ok == SelectSeq(matches[r], Converts)
    IN  [x \in 1..Len(ok) |-> [start |-> ok[x][1], end |-> ok[x][2], label |-> RuleLabel(r)]]

ValidSpans == RuleSpans(1) \o RuleSpans(2) \o RuleSpans(3) \o RuleSpans(4)

EntIntervals == {Iv(e) : e \in {d \in Range(extracted) : IsLinguistic(d)}}

MatchIntervals == UNION {{m \in Range(matches[r]) : Converts(m)} : r \in 1..4}

DroppedMatches == UNION {{m \in Range(matches[r]) : ~Converts(m)} : r \in 1..4}

\* the raw spans: masked extractor entities and converted pattern matches
RawIntervals == EntIntervals \cup MatchIntervals

Positions == 0..(Len(text) - 1)

CoverOf(S) == {p \in Positions : \E iv \in S : iv[1] <= p /\ p < iv[2]}

Covered == CoverOf(RawIntervals)

Uncovered == Positions \ Covered

\* first positions of the maximal runs of covered positions
RegionStarts == {p \in Covered : (p - 1) \notin Covered}

Preserved ==
    LET nth(k) == CHOOSE p \in Uncovered : Cardinality({q \in Uncovered : q <= p}) = k
    IN  [k \in 1..Cardinality(Uncovered) |-> text[nth(k) + 1]]

IsStar(c) == c = "*"

NotStar(c) == c # "*"

SameBag(a, b) ==
    \A v \in Range(a) \cup Range(b) :
        Cardinality({x \in 1..Len(a) : a[x] = v}) = Cardinality({x \in 1..Len(b) : b[x] = v})

\* the position in the text of the first character of a record (the
\* characters of the text are pairwise different)
StartOf(rec) == CHOOSE p \in 1..Len(text) : text[p] = rec.text[1]

Collected == pc \in {"sort", "merge", "build", "done"}

Reportable(sp) == sp.label \in Linguistic \cup PatternLabels

(* C1: coverage.  In the returned masked text no character of a raw span   *)
(* is left and the mask stands for it; the characters outside all raw      *)
(* spans are all there, unchanged and in their order.                      *)
C1_Coverage ==
    pc = "done" =>
        /\ SelectSeq(masked_text, NotStar) = Preserved
        /\ \A p \in Covered : text[p + 1] \notin Range(masked_text)
        /\ Covered # {} => "*" \in Range(masked_text)

C1_Witness ==
    /\ pc = "done"
    /\ Uncovered # {}
    /\ \E a \in EntIntervals : \E b \in MatchIntervals :
          a # b /\ Shares(a, b) /\ a[2] < b[2]

C3_NoDoubleMasking ==
    pc = "done" =>
        /\ \A a, b \in RawIntervals :
              (a[1] <= b[2] /\ b[1] <= a[2]) =>
                  \E x \in 1..Len(merged_spans) :
                      /\ merged_spans[x][1] <= Min(a[1], b[1])
                      /\ Max(a[2], b[2]) <= merged_spans[x][2]
        /\ Len(merged_spans) = Cardinality(RegionStarts)
        /\ Len(SelectSeq(masked_text, IsStar)) = Len(MaskToken) * Cardinality(RegionStarts)
        /\ \A x \in 1..(Len(masked_text) - Len(MaskToken)) :
              \E y \in x..(x + Len(MaskToken)) : masked_text[y] # "*"

C3_Witness ==
    /\ pc = "done"
    /\ \E a, b \in RawIntervals : a[2] = b[1]
    /\ Len(merged_spans) = 1
    /\ Uncovered # {}

NoRaw ==
    /\ \A e \in Range(extracted) : ~IsLinguistic(e)
    /\ \A r \in 1..4 : matches[r] = <<>>

(* C5: with no extractor entity of a masked label and no pattern match,    *)
(* the call ends, the masked text is the text and the report is empty.     *)
C5_NothingFound ==
    NoRaw =>
        /\ pc = "done" => masked_text = text /\ entities_found = <<>>
        /\ pc # "done" => ENABLED Next

C5_Witness ==
    /\ pc = "done"
    /\ NoRaw
    /\ extracted # <<>>

(* C6: a match that does not convert leaves no trace: the candidates, the  *)
(* report, the masking set and the merged intervals are those of the       *)
(* extractor entities and the converting matches alone, and the pass of    *)
(* the loop that meets such a match can be taken.                          *)
C6_DroppedMatch ==
    /\ Collected =>
          /\ new_ents = extracted \o ValidSpans
          /\ entities_found = Recs(SelectSeq(extracted, IsLinguistic) \o ValidSpans)
          /\ Range(spans) = RawIntervals
          /\ Len(spans) = Len(entities_found)
    /\ pc \in {"build", "done"} => CoverOf(Range(merged_spans)) = Covered
    /\ (pc = "patterns" /\ pos # Exhausted /\ ~Converts(matches[pos[1]][pos[2]])) =>
          ENABLED PatternStep

C6_Witness ==
    /\ pc = "done"
    /\ RawIntervals # {}
    /\ \E m \in DroppedMatches : CoverOf({m}) \ Covered # {}

(* C7: the report is in insertion order, extractor entities first, then    *)
(* the matches pattern by pattern as declared, each pattern's from left    *)
(* to right; sorting, merging and reconciliation leave it so.              *)
C7_InsertionOrder ==
    Collected =>
        /\ Len(entities_found) =
              Len(SelectSeq(extracted, IsLinguistic)) + Len(ValidSpans)
        /\ \A x, y \in 1..Len(entities_found) :
              x < y =>
                  LET a == entities_found[x]
                      b == entities_found[y]
                  IN  \/ Rank(a.label) < Rank(b.label)
                      \/ Rank(a.label) = Rank(b.label) /\ StartOf(a) < StartOf(b)

C7_Witness ==
    /\ pc = "done"
    /\ \E x, y \in 1..Len(entities_found) :
          /\ x < y
          /\ Rank(entities_found[x].label) = 0
          /\ Rank(entities_found[y].label) > 0
          /\ StartOf(entities_found[y]) < StartOf(entities_found[x])
    /\ Len(doc_ents) < Len(new_ents)

(* C8, as claimed: the candidates handed to the reconciler and the spans   *)
(* collected for masking have the same intervals, and every entity of the  *)
(* reconciled set lies in a merged interval.                               *)
C8_SameSpanSet ==
    pc = "done" =>
        /\ {Iv(c) : c \in Range(new_ents)} = Range(spans)
        /\ \A e \in Range(doc_ents) :
              \E x \in 1..Len(merged_spans) :
                  merged_spans[x][1] <= e.start /\ e.end <= merged_spans[x][2]

(* C8, amended: the spans collected for masking are the intervals of the   *)
(* candidates that carry a masked label or a pattern label, and every such *)
(* entity of the reconciled set lies in a merged interval.                 *)
C8_SameLabelledSpanSet ==
    pc = "done" =>
        /\ {Iv(c) : c \in {d \in Range(new_ents) : Reportable(d)}} = Range(spans)
        /\ \A e \in Range(doc_ents) :
              Reportable(e) =>
                  \E x \in 1..Len(merged_spans) :
                      merged_spans[x][1] <= e.start /\ e.end <= merged_spans[x][2]

C8_Witness ==
    /\ pc = "done"
    /\ spans # <<>>
    /\ \E e \in Range(doc_ents) : ~Reportable(e) /\ CoverOf({Iv(e)}) \cap Covered = {}
    /\ \E e \in Range(doc_ents) : e.label \in PatternLabels

MergeInv(n) ==
    /\ \A x \in 1..(Len(merged_spans) - 1) :
          /\ merged_spans[x][1] < merged_spans[x + 1][1]
          /\ merged_spans[x][2] < merged_spans[x + 1][1]
    /\ \A x \in 1..Len(merged_spans) :
          /\ 0 <= merged_spans[x][1]
          /\ merged_spans[x][1] < merged_spans[x][2]
          /\ merged_spans[x][2] <= Len(text)
    /\ CoverOf(Range(merged_spans)) = CoverOf(Range(SubSeq(spans, 1, n)))

(* C10: after every pass of the merge loop and after it, merged_spans is   *)
(* in strictly increasing start order, consecutive intervals have a        *)
(* character between them, every interval is non-empty and inside the      *)
(* text, and the intervals cover what the spans seen so far cover.         *)
C10_MergeInvariant ==
    /\ pc = "merge" => MergeInv(i - 1)
    /\ pc \in {"build", "done"} => MergeInv(Len(spans))

C10_Witness ==
    /\ pc = "merge"
    /\ i - 1 = 2
    /\ Len(merged_spans) = 2
====
